---- MODULE Spec2Model ----
(***************************************************************************)
(* Model of igra/download.py: uadb(), the authenticated chunked download   *)
(* of a UADB station file, and _check_file_status(), its progress report.  *)
(*                                                                         *)
(* One call of uadb() is a sequence of steps (pc) over a file system (fs)  *)
(* that outlives the call, so that a second call meets the file the first  *)
(* one left.  The remote server and the operating system are the           *)
(* environment: every request may raise or answer, every answer is drawn   *)
(* from small sets.                                                        *)
(*                                                                         *)
(* Strings the code computes with (the station id, the Content-length      *)
(* header) are sequences of one-character strings; sizes are counted in    *)
(* bytes, with chunk_size scaled from 1048576 down to 2.                   *)
(***************************************************************************)
EXTENDS Integers, Sequences, FiniteSets, TLC

VARIABLES
    pc,          \* position of the call in uadb()
    calls,       \* number of uadb() calls started so far
    arg_ident,   \* the ident argument as the caller passed it
    ident,       \* the local variable ident (line 121 reassigns it)
    debug,       \* kwargs.get('debug', False)
    status,      \* ret.status_code of the login POST, 0 before any answer
    filename,    \* destination path (line 132), <<>> before it is computed
    requested,   \* URLs of the resource GETs issued by this call
    headers,     \* req.headers of the resource response
    body,        \* the resource the response streams, "" before a response
    filesize,    \* the local variable filesize (line 137)
    fs,          \* the directory: existing file name -> bytes on disk
    fsAtCall,    \* fs as it was when this call started
    opened,      \* outfile has been opened by this call
    buf,         \* bytes accepted by outfile.write() and not yet on disk
    received,    \* chunks written by this call, in order
    report,      \* the progress line on stdout, <<>> when none was written
    log,         \* tags of the message() calls of this call, in order
    caught,      \* exception handled by the except clause, "" if none
    failedAt,    \* pc at which an exception was raised, "" if none
    exc,         \* exception that reached the caller, "" if none
    exitStatus   \* argument of exit(), 0 when exit() was not called

vars == <<pc, calls, arg_ident, ident, debug, status, filename, requested,
          headers, body, filesize, fs, fsAtCall, opened, buf, received, report,
          log, caught, failedAt, exc, exitStatus>>

----------------------------------------------------------------------------
(* Bounds of the model *)

MaxCalls == 2
MaxChunks == 2

(* chunk_size of line 139, scaled: one unit is 512 KiB *)
chunk_size == 2

----------------------------------------------------------------------------
(* Strings, int() and str() *)

DigitChars == <<"0", "1", "2", "3", "4", "5", "6", "7", "8", "9">>

DigitVal(c) == (CHOOSE i \in 1..10 : DigitChars[i] = c) - 1

IsDigits(s) ==
    /\ Len(s) > 0
    /\ \A i \in 1..Len(s) : \E d \in 1..10 : DigitChars[d] = s[i]

RECURSIVE IntOf(_)
IntOf(s) ==
    IF Len(s) = 0 THEN 0
    ELSE IntOf(SubSeq(s, 1, Len(s) - 1)) * 10 + DigitVal(s[Len(s)])

RECURSIVE StrOf(_)
StrOf(n) ==
    IF n < 10 THEN <<DigitChars[n + 1]>>
    ELSE StrOf(n \div 10) \o <<DigitChars[(n % 10) + 1]>>

NormalizeKeep(s) == s

(* line 121: ident = str(int(ident)) *)
Normalize(s) == StrOf(IntOf(s))

(* line 132: os.path.join(directory, 'uadb_trhc_%s.txt' % ident) *)
Filename(id) == <<"uadb_trhc_">> \o id \o <<".txt">>

(* line 133 *)
FileUrl(id) == <<"http://rda.ucar.edu/data/ds370.1/uadb_trhc_">> \o id \o <<".txt">>

(* the ids a caller passes: digits with and without leading zeros, and one
   that int() rejects *)
Idents == {<<"1", "0">>, <<"0", "1", "0">>, <<"0", "0">>, <<"x">>}

----------------------------------------------------------------------------
(* The environment's answers *)

Statuses == {200, 204, 403}

(* the resources the server may stream; byte i of resource b is <<b, i>> *)
Bodies == {"a", "b"}

(* the n bytes of resource b that follow its first off bytes *)
NextBytes(b, off, n) == [i \in 1..n |-> <<b, off + i>>]

(* values of the Content-length header: zero, at most chunk_size, more than
   chunk_size, and one that int() rejects *)
ContentLengths == {<<"0">>, <<"1">>, <<"3">>, <<"x">>}

NoHeaders == [h \in {} |-> <<>>]

HeaderSets == {NoHeaders} \cup {[h \in {"Content-length"} |-> v] : v \in ContentLengths}

RECURSIVE Concat(_)
Concat(cs) == IF Len(cs) = 0 THEN <<>> ELSE Head(cs) \o Concat(Tail(cs))

----------------------------------------------------------------------------
(* Pieces of uadb() *)

LoginFailedClientError(code) == code >= 400

(* line 127: ret.status_code != 200 *)
LoginFailed(code) == code # 200

ReraiseNever(dbg) == FALSE

ReraiseAlways(dbg) == TRUE

(* line 148: kwargs.get('debug', False) *)
Reraise(dbg) == dbg

OpenAB(f, name) == IF name \in DOMAIN f THEN f[name] ELSE <<>>

(* line 138: open(filename, 'wb') creates the file or truncates it *)
OpenWB(f, name) == <<>>

WriteChunkDropBuffer(disk, pending, c, through) ==
    IF through THEN [disk |-> disk \o c, buf |-> <<>>]
    ELSE [disk |-> disk, buf |-> pending \o c]

(* line 141: outfile.write(chunk) on a buffered writer: the chunk is kept in
   the buffer, or the buffer and the chunk are written through to the disk *)
WriteChunk(disk, pending, c, through) ==
    IF through THEN [disk |-> disk \o pending \o c, buf |-> <<>>]
    ELSE [disk |-> disk, buf |-> pending \o c]

CloseNoFlush(disk, pending) == disk

(* line 138: leaving the with block closes outfile, which flushes the buffer *)
CloseFile(disk, pending) == disk \o pending

PercentAsFraction(size, total) == (2 * size * 1000 + total) \div (2 * total)

(* lines 173-174: '%.3f' % ((size / filesize) * 100), in thousandths of a
   percent, rounded to the nearest one; called with total # 0 only *)
Percent(size, total) == (2 * size * 100000 + total) \div (2 * total)

(* fs with the content of one file set *)
WithFile(f, name, content) ==
    [n \in DOMAIN f \cup {name} |-> IF n = name THEN content ELSE f[n]]

(* lines 146-150: the except clause *)
Except(e, at) ==
    /\ caught' = e
    /\ failedAt' = at
    /\ log' = Append(log, "Error: ")
    /\ IF Reraise(debug)
       THEN pc' = "raised" /\ exc' = e
       ELSE pc' = "returned" /\ exc' = exc

----------------------------------------------------------------------------
(* The state after import: no call yet, an empty directory *)

Init ==
    /\ pc = "idle"
    /\ calls = 0
    /\ arg_ident = <<>>
    /\ ident = <<>>
    /\ debug = FALSE
    /\ status = 0
    /\ filename = <<>>
    /\ requested = {}
    /\ headers = NoHeaders
    /\ body = ""
    /\ filesize = 0
    /\ fs = [n \in {} |-> <<>>]
    /\ fsAtCall = [n \in {} |-> <<>>]
    /\ opened = FALSE
    /\ buf = <<>>
    /\ received = <<>>
    /\ report = <<>>
    /\ log = <<>>
    /\ caught = ""
    /\ failedAt = ""
    /\ exc = ""
    /\ exitStatus = 0

(* what every call starts from *)
Fresh(id, dbg) ==
    /\ calls' = calls + 1
    /\ arg_ident' = id
    /\ debug' = dbg
    /\ status' = 0
    /\ filename' = <<>>
    /\ requested' = {}
    /\ headers' = NoHeaders
    /\ body' = ""
    /\ filesize' = 0
    /\ fsAtCall' = fs
    /\ opened' = FALSE
    /\ buf' = <<>>
    /\ received' = <<>>
    /\ report' = <<>>
    /\ log' = <<>>
    /\ caught' = ""
    /\ exitStatus' = 0
    /\ UNCHANGED fs

(* lines 106-121: the caller calls uadb(ident, ..., debug=dbg); int() accepts the id *)
Call(id, dbg) ==
    /\ pc \in {"idle", "returned", "raised"}
    /\ calls < MaxCalls
    /\ IsDigits(id)
    /\ Fresh(id, dbg)
    /\ ident' = Normalize(id)
    /\ pc' = "login"
    /\ failedAt' = ""
    /\ exc' = ""

(* line 121: int(ident) raises ValueError, outside the try block *)
CallBadIdent(id, dbg) ==
    /\ pc \in {"idle", "returned", "raised"}
    /\ calls < MaxCalls
    /\ ~IsDigits(id)
    /\ Fresh(id, dbg)
    /\ ident' = id
    /\ pc' = "raised"
    /\ failedAt' = "call"
    /\ exc' = "ValueError"

(* lines 126-134: the login POST answers with status code *)
Login(code) ==
    /\ pc = "login"
    /\ status' = code
    /\ IF LoginFailed(code)
       THEN /\ log' = log \o <<"Bad Authentication", "ret.text">>
            /\ exitStatus' = 1
            /\ pc' = "exited"
            /\ UNCHANGED filename
       ELSE /\ filename' = Filename(ident)
            /\ log' = Append(log, "url to filename")
            /\ pc' = "request"
            /\ UNCHANGED exitStatus
    /\ UNCHANGED <<calls, arg_ident, ident, debug, requested, headers, body, filesize,
                   fs, fsAtCall, opened, buf, received, report, caught,
                   failedAt, exc>>

(* line 126: requests.post raises, outside the try block *)
LoginRaises ==
    /\ pc = "login"
    /\ pc' = "raised"
    /\ failedAt' = "login"
    /\ exc' = "ConnectionError"
    /\ UNCHANGED <<calls, arg_ident, ident, debug, status, filename, requested,
                   headers, body, filesize, fs, fsAtCall, opened, buf, received,
                   report, log, caught, exitStatus>>

(* line 136: the resource GET returns a response with headers h, which will
   stream resource b *)
Get(h, b) ==
    /\ pc = "request"
    /\ requested' = requested \cup {FileUrl(ident)}
    /\ headers' = h
    /\ body' = b
    /\ pc' = "headers"
    /\ UNCHANGED <<calls, arg_ident, ident, debug, status, filename, filesize,
                   fs, fsAtCall, opened, buf, received, report, log, caught,
                   failedAt, exc, exitStatus>>

(* line 136: the resource GET raises *)
GetRaises ==
    /\ pc = "request"
    /\ requested' = requested \cup {FileUrl(ident)}
    /\ Except("ConnectionError", "request")
    /\ UNCHANGED <<calls, arg_ident, ident, debug, status, filename, headers, body,
                   filesize, fs, fsAtCall, opened, buf, received, report,
                   exitStatus>>

(* line 137: filesize = int(req.headers['Content-length']) *)
ParseLength ==
    /\ pc = "headers"
    /\ IF "Content-length" \notin DOMAIN headers
       THEN Except("KeyError", "headers") /\ UNCHANGED filesize
       ELSE IF ~IsDigits(headers["Content-length"])
       THEN Except("ValueError", "headers") /\ UNCHANGED filesize
       ELSE /\ filesize' = IntOf(headers["Content-length"])
            /\ pc' = "open"
            /\ UNCHANGED <<log, caught, failedAt, exc>>
    /\ UNCHANGED <<calls, arg_ident, ident, debug, status, filename, requested,
                   headers, body, fs, fsAtCall, opened, buf, received, report,
                   exitStatus>>

(* line 138: open(filename, 'wb') *)
Open ==
    /\ pc = "open"
    /\ fs' = WithFile(fs, filename, OpenWB(fs, filename))
    /\ opened' = TRUE
    /\ buf' = <<>>
    /\ pc' = "stream"
    /\ UNCHANGED <<calls, arg_ident, ident, debug, status, filename, requested,
                   headers, body, filesize, fsAtCall, received, report, log, caught,
                   failedAt, exc, exitStatus>>

(* line 138: open() raises OSError; no file is created or truncated *)
OpenRaises ==
    /\ pc = "open"
    /\ Except("OSError", "open")
    /\ UNCHANGED <<calls, arg_ident, ident, debug, status, filename, requested,
                   headers, body, filesize, fs, fsAtCall, opened, buf, received,
                   report, exitStatus>>

(* lines 140-143: iter_content yields the next n bytes, which are written;
   through says whether the buffered writer passes them on to the disk at once *)
Chunk(n, through) ==
    /\ pc = "stream"
    /\ Len(received) < MaxChunks
    /\ LET c == NextBytes(body, Len(Concat(received)), n)
           w == WriteChunk(fs[filename], buf, c, through)
       IN /\ fs' = WithFile(fs, filename, w.disk)
          /\ buf' = w.buf
          /\ report' = IF chunk_size < filesize
                       THEN <<Percent(Len(w.disk), filesize)>>
                       ELSE report
          /\ received' = Append(received, c)
    /\ UNCHANGED <<pc, calls, arg_ident, ident, debug, status, filename,
                   requested, headers, body, filesize, fsAtCall, opened, log, caught,
                   failedAt, exc, exitStatus>>

(* line 140: iter_content raises in mid-transfer; the with block closes outfile *)
IterRaises ==
    /\ pc = "stream"
    /\ fs' = WithFile(fs, filename, CloseFile(fs[filename], buf))
    /\ buf' = <<>>
    /\ Except("ChunkedEncodingError", "stream")
    /\ UNCHANGED <<calls, arg_ident, ident, debug, status, filename, requested,
                   headers, body, filesize, fsAtCall, opened, received, report,
                   exitStatus>>

(* line 141: outfile.write raises for the chunk that just arrived; the with
   block closes outfile *)
WriteRaises ==
    /\ pc = "stream"
    /\ Len(received) < MaxChunks
    /\ fs' = WithFile(fs, filename, CloseFile(fs[filename], buf))
    /\ buf' = <<>>
    /\ Except("OSError", "write")
    /\ UNCHANGED <<calls, arg_ident, ident, debug, status, filename, requested,
                   headers, body, filesize, fsAtCall, opened, received, report,
                   exitStatus>>

(* lines 140, 138: iter_content is exhausted, the with block closes outfile *)
StreamEnd ==
    /\ pc = "stream"
    /\ fs' = WithFile(fs, filename, CloseFile(fs[filename], buf))
    /\ buf' = <<>>
    /\ pc' = "check"
    /\ UNCHANGED <<calls, arg_ident, ident, debug, status, filename, requested,
                   headers, body, filesize, fsAtCall, opened, received, report, log,
                   caught, failedAt, exc, exitStatus>>

(* line 145: _check_file_status(filename, filesize) after the with block;
   line 173 divides by filesize *)
FinalCheck ==
    /\ pc = "check"
    /\ IF filesize = 0
       THEN Except("ZeroDivisionError", "check") /\ UNCHANGED report
       ELSE /\ report' = <<Percent(Len(fs[filename]), filesize)>>
            /\ pc' = "isfile"
            /\ UNCHANGED <<log, caught, failedAt, exc>>
    /\ UNCHANGED <<calls, arg_ident, ident, debug, status, filename, requested,
                   headers, body, filesize, fs, fsAtCall, opened, buf, received,
                   exitStatus>>

(* lines 152-155 *)
Finish ==
    /\ pc = "isfile"
    /\ log' = Append(log, IF filename \in DOMAIN fs
                          THEN "Downloaded: " ELSE "File not found: ")
    /\ pc' = "returned"
    /\ UNCHANGED <<calls, arg_ident, ident, debug, status, filename, requested,
                   headers, body, filesize, fs, fsAtCall, opened, buf, received,
                   report, caught, failedAt, exc, exitStatus>>

Next ==
    \/ \E id \in Idents, dbg \in BOOLEAN : Call(id, dbg)
    \/ \E id \in Idents, dbg \in BOOLEAN : CallBadIdent(id, dbg)
    \/ \E code \in Statuses : Login(code)
    \/ LoginRaises
    \/ \E h \in HeaderSets, b \in Bodies : Get(h, b)
    \/ GetRaises
    \/ ParseLength
    \/ Open
    \/ OpenRaises
    \/ \E n \in 1..chunk_size, through \in BOOLEAN : Chunk(n, through)
    \/ IterRaises
    \/ WriteRaises
    \/ StreamEnd
    \/ FinalCheck
    \/ Finish

Spec == Init /\ [][Next]_vars

----------------------------------------------------------------------------
(* Vocabulary of the properties *)

InLog(m) == \E i \in 1..Len(log) : log[i] = m

(* the call returned and reported 'Downloaded' *)
Complete == pc = "returned" /\ InLog("Downloaded: ")

(* the call returned without reporting 'Downloaded' *)
NotFound == pc = "returned" /\ ~InLog("Downloaded: ")

Exists(name) == name \in DOMAIN fs

(* the id a file name or URL embeds between its prefix and '.txt' *)
EmbeddedId(path) == SubSeq(path, 2, Len(path) - 1)

RECURSIVE StripZeros(_)
StripZeros(s) ==
    IF Len(s) > 1 /\ Head(s) = "0" THEN StripZeros(Tail(s)) ELSE s

RECURSIVE SumLen(_)
SumLen(cs) == IF Len(cs) = 0 THEN 0 ELSE Len(Head(cs)) + SumLen(Tail(cs))

(* the response of this call carries no Content-length that int() accepts *)
LengthUnknown ==
    /\ body # ""
    /\ \/ "Content-length" \notin DOMAIN headers
       \/ ~IsDigits(headers["Content-length"])

----------------------------------------------------------------------------
(* C1: whenever the login POST answers with a status other than 200, the
   call reports 'Bad Authentication' and exits with status 1, and it makes no
   download attempt: no resource GET is issued, the destination file is not
   opened and the directory is as it was when the call started. *)
C1_BadLoginExits ==
    (status # 0 /\ status # 200) =>
        /\ pc = "exited"
        /\ exitStatus = 1
        /\ InLog("Bad Authentication")
        /\ requested = {}
        /\ ~opened
        /\ fs = fsAtCall

(* a login answered with 204, a success status that is not 200, has exited *)
C1_Witness == status = 204 /\ pc = "exited" /\ exitStatus = 1

(* C2: when the resource GET, the stream or a file write raises, the
   exception reaches the caller if and only if debug is set: with debug off
   the call reports the error and returns without raising and without
   'Downloaded'; with debug on the exception raised is the one the caller
   gets. *)
C2_RaisesIffDebug ==
    failedAt \in {"request", "stream", "write"} =>
        /\ caught # ""
        /\ InLog("Error: ")
        /\ (exc # "") <=> debug
        /\ debug => pc = "raised" /\ exc = caught
        /\ ~debug => pc = "returned" /\ ~InLog("Downloaded: ")

(* a write failed after a chunk was written, debug on, and the caller got it *)
C2_Witness ==
    /\ failedAt = "write"
    /\ Len(received) >= 1
    /\ debug
    /\ pc = "raised"
    /\ exc = "OSError"

(* C3: when the stream fails after k chunks were written and debug is off,
   the call returns 'not found' and the destination file is still on disk,
   holding exactly those k chunks in order, the first bytes of the resource. *)
C3_PartialFileKept ==
    (failedAt \in {"stream", "write"} /\ ~debug) =>
        /\ NotFound
        /\ Exists(filename)
        /\ fs[filename] = Concat(received)
        /\ fs[filename] = NextBytes(body, 0, SumLen(received))

(* the stream failed after two chunks, debug off *)
C3_Witness ==
    /\ failedAt = "stream"
    /\ ~debug
    /\ Len(received) = 2
    /\ pc = "returned"
    /\ Len(fs[filename]) >= 2

(* C4: a run that completes over a destination file left by an earlier run
   overwrites it: the file then holds exactly the bytes of this run's
   response, and its size is their count, not the earlier size plus it. *)
C4_Overwrites ==
    (Complete /\ filename \in DOMAIN fsAtCall) =>
        /\ fs[filename] = NextBytes(body, 0, SumLen(received))
        /\ Len(fs[filename]) = SumLen(received)

(* the second run completed with a response shorter than the file it met *)
C4_Witness ==
    /\ calls = 2
    /\ Complete
    /\ filename \in DOMAIN fsAtCall
    /\ Len(fs[filename]) >= 1
    /\ Len(fs[filename]) < Len(fsAtCall[filename])
    /\ fs[filename][1] # fsAtCall[filename][1]

(* C5: once the stream has ended without error the size of the destination
   file is the sum of the lengths of the chunks received, and the final
   progress report is (size / Content-length) * 100 to three decimals,
   computed from that size, whether or not the two sizes agree. *)
C5_FinalSizeAndPercent ==
    /\ (pc \in {"check", "isfile"} \/ Complete) =>
           Len(fs[filename]) = SumLen(received)
    /\ (pc = "isfile" \/ Complete) =>
           /\ Len(report) = 1
           /\ 2 * report[1] * filesize - 2 * 100000 * Len(fs[filename]) <= filesize
           /\ 2 * 100000 * Len(fs[filename]) - 2 * report[1] * filesize <= filesize

(* a run completed with two chunks whose total differs from Content-length *)
C5_Witness ==
    /\ Complete
    /\ Len(received) = 2
    /\ Len(fs[filename]) # filesize
    /\ filesize = 3

(* C6: when the resource response has no Content-length header or a
   malformed one, the download still proceeds: the destination file is
   opened and the call does not fail because of the header. *)
C6_LengthOptional ==
    (LengthUnknown /\ pc \in {"returned", "raised"}) =>
        /\ opened
        /\ failedAt # "headers"

(* C7, for the calls in which the Content-length is an integer and neither a
   request nor open() nor a write raised: when the call returns, the outcome
   is 'Downloaded' if the destination file exists and 'File not found'
   otherwise, for every Content-length, 0 included. *)
C7_OutcomeMatchesFile ==
    (pc = "returned" /\ status = 200
        /\ failedAt \notin {"request", "headers", "open", "stream", "write"}) =>
        /\ Exists(filename) <=> InLog("Downloaded: ")
        /\ ~Exists(filename) <=> InLog("File not found: ")

(* C8: for an id of digits, the file name and every URL requested embed the
   id with its leading zeros stripped, and so the same id. *)
C8_NormalizedId ==
    IsDigits(arg_ident) =>
        /\ filename # <<>> => EmbeddedId(filename) = StripZeros(arg_ident)
        /\ \A u \in requested : EmbeddedId(u) = StripZeros(arg_ident)

(* the id "010" was requested and stored as "10" *)
C8_Witness ==
    /\ arg_ident = <<"0", "1", "0">>
    /\ filename = <<"uadb_trhc_", "1", "0", ".txt">>
    /\ requested = {<<"http://rda.ucar.edu/data/ds370.1/uadb_trhc_", "1", "0", ".txt">>}

(* C9 as stated, for ids that int() accepts: with debug off no failure
   reaches the caller as an exception, a failure of the login POST included. *)
C9_NeverRaisesWithoutDebug ==
    (~debug /\ IsDigits(arg_ident)) => exc = ""

(* C9 as amended: with debug off, an exception raised from the resource GET
   on is caught, reported and the call returns; an exception raised before
   it, by int(ident) or by the login POST, reaches the caller whatever debug
   is, and is not reported. *)
C9_OnlyTryBlockIsSwallowed ==
    /\ failedAt \in {"call", "login"} =>
           pc = "raised" /\ exc # "" /\ caught = "" /\ ~InLog("Error: ")
    /\ ~debug =>
           /\ exc # "" => failedAt \in {"call", "login"}
           /\ caught # "" => pc = "returned" /\ InLog("Error: ")

(* the login POST raised with debug off and the caller got the exception *)
C9_Witness ==
    /\ ~debug
    /\ failedAt = "login"
    /\ pc = "raised"
    /\ exc = "ConnectionError"

(* C10 as stated: a call that fails up to the parsing of Content-length
   leaves the directory unchanged, and a call that fails at any later point
   has already lost the previous content of the destination file, which
   holds only what this call wrote. *)
C10_LostAfterParse ==
    /\ failedAt \in {"call", "login", "request", "headers"} => fs = fsAtCall
    /\ (failedAt \in {"open", "stream", "write", "check"}
            /\ filename \in DOMAIN fsAtCall) =>
           fs[filename] = Concat(received)

(* C10 as amended: the directory is unchanged until open() has succeeded, so
   also when open() itself raises; once it has, the destination file holds
   only what this call wrote, even when that is nothing, and every other file
   is unchanged. *)
C10_LostOnceOpened ==
    /\ ~opened => fs = fsAtCall
    /\ failedAt \in {"call", "login", "request", "headers", "open"} => ~opened
    /\ failedAt \in {"stream", "write", "check"} => opened
    /\ opened =>
           /\ Exists(filename)
           /\ fs[filename] \o buf = Concat(received)
           /\ \A n \in DOMAIN fsAtCall \ {filename} :
                  Exists(n) /\ fs[n] = fsAtCall[n]

(* the stream failed before any chunk, over a file an earlier run had left *)
C10_Witness ==
    /\ failedAt = "stream"
    /\ received = <<>>
    /\ filename \in DOMAIN fsAtCall
    /\ Len(fsAtCall[filename]) > 0
    /\ fs[filename] = <<>>

====
